---- MODULE Spec2Model ----
(***************************************************************************)
(* A model of ferrodb's lexer: the position-tracked character source        *)
(* (CharacterIter), the token vocabulary (tokens.rs), the typestate lexer   *)
(* (Tokenizer<S> / TokenizerStateMachine) and the lazy TokenIterator; and   *)
(* of its page storage: the page file (PageIO) under the write-through LRU  *)
(* page cache (PageManager, PageManagerBuilder).                            *)
(*                                                                          *)
(* Characters are one-character strings, except the NUL character, which    *)
(* is written NUL.  A Rust String is a sequence of characters.  An          *)
(* Option<T> is a sequence of length 0 (None) or 1 (Some).                  *)
(***************************************************************************)
EXTENDS Integers, Sequences, FiniteSets, TLC

VARIABLES
    sql,            \* the text handed to tokenize(sql); never changes
    input,          \* CharacterIter.input
    chars,          \* CharacterIter.chars: the characters not yet read
    location,       \* CharacterIter.location
    state_machine,  \* TokenIterator.state_machine
    buffered_token, \* TokenIterator.buffered_token
    results,        \* what the calls of TokenIterator::next returned, in order
    char_results,   \* what the calls of CharacterIter::next returned, in order
    file,           \* the bytes of the page file at db_path
    manager,        \* the PageManager the builder returned, if any (an Option)
    page_result,    \* the last call on the builder or the manager, and its return
    written         \* per page id, the page of the last write_page that succeeded

lexer_vars == <<sql, input, chars, location, state_machine, buffered_token,
                results, char_results>>

page_vars == <<file, manager, page_result, written>>

vars == <<sql, input, chars, location, state_machine, buffered_token,
          results, char_results, file, manager, page_result, written>>

-----------------------------------------------------------------------------
(* Bounds *)

\* the longest input text over the alphabets of the model
MaxLen == 3
\* the most calls of next() a consumer makes
MaxCalls == 8
\* the most calls of TokenIterator::next that return None
MaxNones == 2
\* the largest page id a caller uses
MaxPageId == 2

-----------------------------------------------------------------------------
(* Characters *)

NUL == "NUL"

Lower == <<"a","b","c","d","e","f","g","h","i","j","k","l","m",
           "n","o","p","q","r","s","t","u","v","w","x","y","z">>

Upper == <<"A","B","C","D","E","F","G","H","I","J","K","L","M",
           "N","O","P","Q","R","S","T","U","V","W","X","Y","Z">>

Digits == {"0","1","2","3","4","5","6","7","8","9"}

\* char::to_uppercase, on the characters of the model
UppercaseOf ==
    [c \in {Lower[i] : i \in 1..26} |-> Upper[CHOOSE i \in 1..26 : Lower[i] = c]]

CharToUppercase(c) ==
    IF c \in DOMAIN UppercaseOf THEN UppercaseOf[c] ELSE c

\* mutant: the text is matched as written, case kept
to_uppercase_AsWritten(val) == val

\* str::to_uppercase
to_uppercase(val) == [i \in 1..Len(val) |-> CharToUppercase(val[i])]

-----------------------------------------------------------------------------
(* Token vocabulary (tokens.rs).  A token is [kind, name, text]:            *)
(*   Keyword(k)                 [kind "Keyword",    name k,  text <<>>]     *)
(*   Identifier(s)              [kind "Identifier", name "", text s]        *)
(*   String(s) / Number(s)      likewise                                    *)
(*   Separator(Comma|Semicolon) [kind "Separator",  name ..]                *)
(*   Separator(Operator(o))     [kind "Operator",   name o]                 *)
(*   Separator(Whitespace(w))   [kind "Whitespace", name w]                 *)
(* "Invalid" is the Invalid variant of each enum.                           *)

Tok(kind, name, text) == [kind |-> kind, name |-> name, text |-> text]

\* the match of impl From<&str> for Operator, on val.to_uppercase()
OperatorMatch(u) ==
    CASE u = <<"+">>      -> "Add"
      [] u = <<"/">>      -> "Divide"
      [] u = <<"=">>      -> "Eq"
      [] u = <<">">>      -> "Gt"
      [] u = <<">","=">>  -> "GtEq"
      [] u = <<"<">>      -> "Lt"
      [] u = <<"<","=">>  -> "LtEq"
      [] u = <<"%">>      -> "Modulo"
      [] u = <<"*">>      -> "Multiply"
      [] u = <<"!","=">>  -> "NotEq"
      [] u = <<")">>      -> "ParenClose"
      [] u = <<"(">>      -> "ParenOpen"
      [] u = <<"-">>      -> "Subtract"
      [] OTHER            -> "Invalid"

\* impl From<&str> for Operator
OperatorFrom(val) == OperatorMatch(to_uppercase(val))

\* the match of impl From<&str> for Whitespace, on val.to_uppercase()
WhitespaceMatch(u) ==
    CASE u = <<" ">>   -> "Space"
      [] u = <<"\t">>  -> "Tab"
      [] u = <<"\n">>  -> "Newline"
      [] OTHER         -> "Invalid"

\* impl From<&str> for Whitespace
WhitespaceFrom(val) == WhitespaceMatch(to_uppercase(val))

KeywordTable ==
    [ And |-> <<"A","N","D">>,
      As |-> <<"A","S">>,
      Begin |-> <<"B","E","G","I","N">>,
      Between |-> <<"B","E","T","W","E","E","N">>,
      BigInt |-> <<"B","I","G","I","N","T">>,
      Bool |-> <<"B","O","O","L">>,
      By |-> <<"B","Y">>,
      Commit |-> <<"C","O","M","M","I","T">>,
      Create |-> <<"C","R","E","A","T","E">>,
      Database |-> <<"D","A","T","A","B","A","S","E">>,
      Delete |-> <<"D","E","L","E","T","E">>,
      Distinct |-> <<"D","I","S","T","I","N","C","T">>,
      Drop |-> <<"D","R","O","P">>,
      False |-> <<"F","A","L","S","E">>,
      From |-> <<"F","R","O","M">>,
      In |-> <<"I","N">>,
      Index |-> <<"I","N","D","E","X">>,
      Insert |-> <<"I","N","S","E","R","T">>,
      Int |-> <<"I","N","T">>,
      Key |-> <<"K","E","Y">>,
      Like |-> <<"L","I","K","E">>,
      Limit |-> <<"L","I","M","I","T">>,
      Not |-> <<"N","O","T">>,
      Null |-> <<"N","U","L","L">>,
      Or |-> <<"O","R">>,
      Order |-> <<"O","R","D","E","R">>,
      Primary |-> <<"P","R","I","M","A","R","Y">>,
      Rollback |-> <<"R","O","L","L","B","A","C","K">>,
      Select |-> <<"S","E","L","E","C","T">>,
      Set |-> <<"S","E","T">>,
      Table |-> <<"T","A","B","L","E">>,
      Transaction |-> <<"T","R","A","N","S","A","C","T","I","O","N">>,
      True |-> <<"T","R","U","E">>,
      Unique |-> <<"U","N","I","Q","U","E">>,
      Unsigned |-> <<"U","N","S","I","G","N","E","D">>,
      Update |-> <<"U","P","D","A","T","E">>,
      Values |-> <<"V","A","L","U","E","S">>,
      Varchar |-> <<"V","A","R","C","H","A","R">>,
      Where |-> <<"W","H","E","R","E">> ]

\* the words of the keyword table
KeywordWords == {KeywordTable[k] : k \in DOMAIN KeywordTable}

\* the match of impl From<&str> for Keyword, on val.to_uppercase()
KeywordMatch(u) ==
    IF u \in KeywordWords
    THEN CHOOSE k \in DOMAIN KeywordTable : KeywordTable[k] = u
    ELSE "Invalid"

\* impl From<&str> for Keyword
KeywordFrom(val) == KeywordMatch(to_uppercase(val))

\* impl From<&str> for Separator: the variant, as the token it denotes
\* (kind "Invalid" for Separator::Invalid)
\* with u = val.to_uppercase(), whitespace = Whitespace::from(val) and
\* operator = Operator::from(val)
SeparatorMatch(u, whitespace, operator) ==
    CASE u = <<";">> -> Tok("Separator", "Semicolon", <<>>)
      [] u = <<",">> -> Tok("Separator", "Comma", <<>>)
      [] OTHER ->
            IF whitespace # "Invalid"
            THEN Tok("Whitespace", whitespace, <<>>)
            ELSE IF operator # "Invalid"
            THEN Tok("Operator", operator, <<>>)
            ELSE Tok("Invalid", "Invalid", <<>>)

SeparatorFrom(val) ==
    SeparatorMatch(to_uppercase(val), WhitespaceFrom(val), OperatorFrom(val))

\* impl From<&str> for Token, with separator = Separator::from(val),
\* operator = Operator::from(val) and keyword = Keyword::from(val)
TokenMatch(val, separator, operator, keyword) ==
    IF separator.kind # "Invalid"
    THEN separator
    ELSE IF operator # "Invalid"
    THEN Tok("Operator", operator, <<>>)
    ELSE IF keyword # "Invalid"
    THEN Tok("Keyword", keyword, <<>>)
    ELSE Tok("Identifier", "", val)

\* impl From<&str> for Token
TokenFrom(val) ==
    TokenMatch(val, SeparatorFrom(val), OperatorFrom(val), KeywordFrom(val))

-----------------------------------------------------------------------------
(* Character source (tokenizer.rs, CharacterIter) *)

Loc(row, col) == [row |-> row, col |-> col]

\* impl Default for CharacterLocation
DefaultLocation == Loc(0, 0)

\* CharacterItem
CharacterItem(character, next_character, loc) ==
    [character |-> character, next_character |-> next_character, location |-> loc]

\* CharacterIter::new
CharacterIterNew(text) ==
    [input |-> text, chars |-> text, location |-> DefaultLocation]

\* mutant: a newline advances the row but does not reset the column
CharacterIterNext_NoColumnReset(it) ==
    IF it.chars # <<>>
    THEN LET character == Head(it.chars)
             rest == Tail(it.chars)
             current_location == it.location
             new_location ==
                 IF character = "\n"
                 THEN Loc(it.location.row + 1, it.location.col)
                 ELSE Loc(it.location.row, it.location.col + 1)
         IN [ret |-> <<CharacterItem(character,
                                     IF rest # <<>> THEN <<Head(rest)>> ELSE <<>>,
                                     current_location)>>,
             it |-> [it EXCEPT !.chars = rest, !.location = new_location]]
    ELSE IF it.input = <<>>
    THEN [ret |-> <<>>, it |-> it]
    ELSE [ret |-> <<CharacterItem(NUL, <<>>, it.location)>>,
          it |-> [it EXCEPT !.input = <<>>]]

\* CharacterIter::next: [ret |-> Option<CharacterItem>, it |-> the iterator after]
CharacterIterNext(it) ==
    IF it.chars # <<>>
    THEN LET character == Head(it.chars)
             rest == Tail(it.chars)
             current_location == it.location
             new_location ==
                 IF character = "\n"
                 THEN Loc(it.location.row + 1, 0)
                 ELSE Loc(it.location.row, it.location.col + 1)
         IN [ret |-> <<CharacterItem(character,
                                     IF rest # <<>> THEN <<Head(rest)>> ELSE <<>>,
                                     current_location)>>,
             it |-> [it EXCEPT !.chars = rest, !.location = new_location]]
    ELSE IF it.input = <<>>
    THEN [ret |-> <<>>, it |-> it]
    ELSE [ret |-> <<CharacterItem(NUL, <<>>, it.location)>>,
          it |-> [it EXCEPT !.input = <<>>]]

-----------------------------------------------------------------------------
(* Lexer state machine (tokenizer.rs, Tokenizer<S>, TokenizerStateMachine) *)

TokenItem(token, start, end) == [token |-> token, start |-> start, end |-> end]

\* Tokenizer<S>; parsing_decimals is the field of NumberState
Tokenizer(state, parsing_decimals, char_buffer, token_start, tokens) ==
    [state |-> state, parsing_decimals |-> parsing_decimals,
     char_buffer |-> char_buffer, token_start |-> token_start, tokens |-> tokens]

\* Tokenizer::<BaseState>::new, TokenizerStateMachine::new
TokenizerNew == Tokenizer("Base", FALSE, <<>>, DefaultLocation, <<>>)

\* the Invalid machine process_character leaves behind
InvalidMachine == Tokenizer("Invalid", FALSE, <<>>, DefaultLocation, <<>>)

OkResult(sm) == [ok |-> TRUE, sm |-> sm]
ErrResult(kind, loc) == [ok |-> FALSE, err |-> [kind |-> kind, loc |-> loc]]

\* Tokenizer::push_token, with token_item = tokenize_fn(string, start, end):
\* the Option's map pushes the item, if any, to the back of the deque
push_token(self, token_item) ==
    [self EXCEPT !.tokens = @ \o token_item]

\* Tokenizer::<BaseState>::tokenize
Base_tokenize(string, start, end) ==
    IF string = <<>> \/ string = <<NUL>>
    THEN <<>>
    ELSE <<TokenItem(TokenFrom(string), start, end)>>

\* mutant: the String token carries its two locations exchanged
String_tokenize_Exchanged(string, start, end) ==
    <<TokenItem(Tok("String", "", string), end, start)>>

\* Tokenizer::<StringState>::tokenize
String_tokenize(string, start, end) ==
    <<TokenItem(Tok("String", "", string), start, end)>>

\* mutant: the newline token spans the whole comment, from its first dash
Comment_tokenize_FromStart(string, start, end) ==
    <<TokenItem(Tok("Whitespace", "Newline", <<>>), start, end)>>

\* Tokenizer::<CommentState>::tokenize
Comment_tokenize(string, start, end) ==
    <<TokenItem(Tok("Whitespace", "Newline", <<>>), end, end)>>

\* Tokenizer::<OperatorState>::tokenize
Operator_tokenize(string, start, end) ==
    <<TokenItem(Tok("Operator", OperatorFrom(string), <<>>), start, end)>>

\* Tokenizer::<NumberState>::tokenize
Number_tokenize(string, start, end) ==
    IF string = <<>> \/ string = <<NUL>>
    THEN <<>>
    ELSE <<TokenItem(Tok("Number", "", string), start, end)>>

\* Tokenizer::<BaseState>::to_string_state
Base_to_string_state(self, character_item) ==
    LET s == push_token(self,
            Base_tokenize(self.char_buffer, self.token_start, character_item.location))
    IN Tokenizer("String", FALSE, <<>>, character_item.location, s.tokens)

\* Tokenizer::<BaseState>::to_comment_state
Base_to_comment_state(self, character_item) ==
    LET s == push_token(self,
            Base_tokenize(self.char_buffer, self.token_start, character_item.location))
    IN Tokenizer("Comment", FALSE, <<>>, character_item.location, s.tokens)

\* mutant: the decimal flag is left unset when Number mode is entered
Base_to_number_state_NoDecimalFlag(self, character_item) ==
    Tokenizer("Number", FALSE,
              <<character_item.character>>, character_item.location, self.tokens)

\* Tokenizer::<BaseState>::to_number_state
Base_to_number_state(self, character_item) ==
    Tokenizer("Number", character_item.character = ".",
              <<character_item.character>>, character_item.location, self.tokens)

\* Tokenizer::<BaseState>::to_base_state
Base_to_base_state(self, character_item) ==
    Tokenizer("Base", FALSE, Append(self.char_buffer, character_item.character),
              self.token_start, self.tokens)

\* Tokenizer::<BaseState>::to_operator_state
Base_to_operator_state(self, character_item) ==
    LET s == push_token(self,
            Base_tokenize(self.char_buffer, self.token_start, character_item.location))
    IN Tokenizer("Operator", FALSE, <<character_item.character>>,
                 self.token_start, s.tokens)

\* the last arm of Tokenizer::<BaseState>::process_character, once the buffer
\* is flushed (self.push_token of the arm's inner match)
Base_flushed_arm(flushed, character_item, separator) ==
    IF separator.kind = "Operator"
    THEN Base_to_operator_state(flushed, character_item)
    ELSE push_token([flushed EXCEPT !.char_buffer = <<>>],
            Base_tokenize(<<character_item.character>>, flushed.token_start, character_item.location))

\* the last arm of Tokenizer::<BaseState>::process_character, with
\* separator = Separator::from(character)
Base_separator_arm(self, character_item, separator) ==
    IF separator.kind = "Invalid"
    THEN OkResult(Base_to_base_state(self, character_item))
    ELSE OkResult(Base_flushed_arm(
             push_token(self,
            Base_tokenize(self.char_buffer, self.token_start, character_item.location)),
             character_item, separator))

\* Tokenizer::<BaseState>::process_character
Base_process_character(self, character_item) ==
    LET character == character_item.character
        next_character == character_item.next_character
    IN
    IF character = NUL
    THEN OkResult(push_token(self,
            Base_tokenize(self.char_buffer, self.token_start, character_item.location)))
    ELSE IF character = "\""
    THEN OkResult(Base_to_string_state(self, character_item))
    ELSE IF character = "-" /\ next_character = <<"-">>
    THEN OkResult(Base_to_comment_state(self, character_item))
    ELSE IF (character \in Digits \/ character = ".") /\ self.char_buffer = <<>>
    THEN OkResult(Base_to_number_state(self, character_item))
    ELSE Base_separator_arm(self, character_item, SeparatorFrom(<<character>>))

\* Tokenizer::<StringState>::to_base_state
String_to_base_state(self, character_item) ==
    LET s == push_token(self,
            String_tokenize(self.char_buffer, self.token_start, character_item.location))
    IN Tokenizer("Base", FALSE, <<>>, character_item.location, s.tokens)

\* mutant: String mode appends the character in upper case
String_to_string_state_Uppercased(self, character_item) ==
    Tokenizer("String", FALSE,
              Append(self.char_buffer, CharToUppercase(character_item.character)),
              self.token_start, self.tokens)

\* Tokenizer::<StringState>::to_string_state
String_to_string_state(self, character_item) ==
    Tokenizer("String", FALSE, Append(self.char_buffer, character_item.character),
              self.token_start, self.tokens)

\* mutant: the error carries the location of the character that ended the
\* literal, not of the opening quote
String_process_character_AtCurrent(self, character_item) ==
    LET character == character_item.character IN
    IF character = NUL \/ character = "\n"
    THEN ErrResult("UnterminatedString", character_item.location)
    ELSE IF character = "\""
    THEN OkResult(String_to_base_state(self, character_item))
    ELSE OkResult(String_to_string_state(self, character_item))

\* Tokenizer::<StringState>::process_character
String_process_character(self, character_item) ==
    LET character == character_item.character IN
    IF character = NUL
    THEN ErrResult("UnterminatedString", self.token_start)
    ELSE IF character = "\n"
    THEN ErrResult("UnterminatedString", self.token_start)
    ELSE IF character = "\""
    THEN OkResult(String_to_base_state(self, character_item))
    ELSE OkResult(String_to_string_state(self, character_item))

\* Tokenizer::<CommentState>::to_base_state
Comment_to_base_state(self, character_item) ==
    LET s == push_token(self,
            Comment_tokenize(<<>>, self.token_start, character_item.location))
    IN Tokenizer("Base", FALSE, <<>>, character_item.location, s.tokens)

\* Tokenizer::<CommentState>::to_comment_state
Comment_to_comment_state(self, character_item) ==
    Tokenizer("Comment", FALSE, self.char_buffer, self.token_start, self.tokens)

\* mutant: Comment mode has no outcome for the end of input but a failure of
\* a third kind
Comment_process_character_Unhandled(self, character_item) ==
    IF character_item.character = "\n"
    THEN OkResult(Comment_to_base_state(self, character_item))
    ELSE IF character_item.character = NUL
    THEN ErrResult("Unhandled", character_item.location)
    ELSE OkResult(Comment_to_comment_state(self, character_item))

\* Tokenizer::<CommentState>::process_character
Comment_process_character(self, character_item) ==
    IF character_item.character = "\n"
    THEN OkResult(Comment_to_base_state(self, character_item))
    ELSE OkResult(Comment_to_comment_state(self, character_item))

\* mutant: leaving Operator mode pushes the operator token twice
Operator_to_base_state_PushTwice(self, character_item) ==
    LET s == push_token(push_token(self,
            Operator_tokenize(self.char_buffer, self.token_start, character_item.location)),
            Operator_tokenize(self.char_buffer, self.token_start, character_item.location))
    IN Tokenizer("Base", FALSE, <<>>, character_item.location, s.tokens)

\* Tokenizer::<OperatorState>::to_base_state
Operator_to_base_state(self, character_item) ==
    LET s == push_token(self,
            Operator_tokenize(self.char_buffer, self.token_start, character_item.location))
    IN Tokenizer("Base", FALSE, <<>>, character_item.location, s.tokens)

\* mutant: the character that ends a one-character operator is classified on
\* its own, not processed by Base mode
Operator_process_character_NoRedispatch(self, character_item) ==
    LET multi_char_operator ==
            OperatorFrom(Append(self.char_buffer, character_item.character))
    IN
    IF multi_char_operator = "Invalid"
    THEN OkResult(push_token(Operator_to_base_state(self, character_item),
            Base_tokenize(<<character_item.character>>, character_item.location, character_item.location)))
    ELSE OkResult(Operator_to_base_state(
             [self EXCEPT !.char_buffer = Append(@, character_item.character)],
             character_item))

\* Tokenizer::<OperatorState>::process_character
Operator_process_character(self, character_item) ==
    LET multi_char_operator ==
            OperatorFrom(Append(self.char_buffer, character_item.character))
    IN
    IF multi_char_operator = "Invalid"
    THEN Base_process_character(Operator_to_base_state(self, character_item),
                                character_item)
    ELSE OkResult(Operator_to_base_state(
             [self EXCEPT !.char_buffer = Append(@, character_item.character)],
             character_item))

\* mutant: leaving Number mode drops the literal and keeps only the token of
\* the terminating character
Number_to_base_state_DropLiteral(self, character_item) ==
    LET s == push_token(self,
            Base_tokenize(<<character_item.character>>, character_item.location, character_item.location))
    IN Tokenizer("Base", FALSE, <<>>, character_item.location, s.tokens)

\* Tokenizer::<NumberState>::to_base_state
Number_to_base_state(self, character_item) ==
    LET s == push_token(push_token(self,
            Number_tokenize(self.char_buffer, self.token_start, character_item.location)),
            Base_tokenize(<<character_item.character>>, character_item.location, character_item.location))
    IN Tokenizer("Base", FALSE, <<>>, character_item.location, s.tokens)

\* Tokenizer::<NumberState>::to_number_state
Number_to_number_state(self, character_item, parsing_decimals) ==
    Tokenizer("Number", parsing_decimals,
              Append(self.char_buffer, character_item.character),
              self.token_start, self.tokens)

\* mutant: the error carries the location of the second `.`, not of the
\* literal's first character
Number_process_character_AtCurrent(self, character_item) ==
    LET character == character_item.character IN
    IF character = "." /\ self.parsing_decimals
    THEN ErrResult("InvalidNumber", character_item.location)
    ELSE IF character = "."
    THEN OkResult(Number_to_number_state(self, character_item, TRUE))
    ELSE IF character \in Digits
    THEN OkResult(Number_to_number_state(self, character_item, self.parsing_decimals))
    ELSE OkResult(Number_to_base_state(self, character_item))

\* Tokenizer::<NumberState>::process_character
Number_process_character(self, character_item) ==
    LET character == character_item.character IN
    IF character = "." /\ self.parsing_decimals
    THEN ErrResult("InvalidNumber", self.token_start)
    ELSE IF character = "."
    THEN OkResult(Number_to_number_state(self, character_item, TRUE))
    ELSE IF character \in Digits
    THEN OkResult(Number_to_number_state(self, character_item, self.parsing_decimals))
    ELSE OkResult(Number_to_base_state(self, character_item))

\* TokenizerStateMachine::process_character: [ok, sm] is Ok(()) with *self = sm;
\* [ok, err, sm] with ok = FALSE is Err(err), and *self is left as the Invalid
\* machine std::mem::replace put there
\* mutant: the failed step leaves a fresh Base machine behind, not Invalid
process_character_replace_Recovering(r) ==
    IF r.ok
    THEN r
    ELSE [ok |-> FALSE, err |-> r.err, sm |-> TokenizerNew]

\* the std::mem::replace of TokenizerStateMachine::process_character: when the
\* step fails, `?` returns before *self is assigned and the Invalid machine stays
process_character_replace(r) ==
    IF r.ok
    THEN r
    ELSE [ok |-> FALSE, err |-> r.err, sm |-> InvalidMachine]

\* the match of TokenizerStateMachine::process_character
process_character_match(self, character_item) ==
    CASE self.state = "Base"     -> Base_process_character(self, character_item)
      [] self.state = "String"   -> String_process_character(self, character_item)
      [] self.state = "Comment"  -> Comment_process_character(self, character_item)
      [] self.state = "Operator" -> Operator_process_character(self, character_item)
      [] self.state = "Number"   -> Number_process_character(self, character_item)
      [] self.state = "Invalid"  ->
             ErrResult("InvalidNumber", character_item.location)

process_character(self, character_item) ==
    process_character_replace(process_character_match(self, character_item))

\* TokenizerStateMachine::collect_tokens: std::mem::take of the tokens
collect_tokens(self) ==
    [tokens |-> self.tokens, sm |-> [self EXCEPT !.tokens = <<>>]]

-----------------------------------------------------------------------------
(* Token iteration layer (tokenizer.rs, TokenIterator) *)

RetOk(token_item) == [tag |-> "Ok", item |-> token_item]
RetErr(err) == [tag |-> "Err", err |-> err]
RetNone == [tag |-> "None"]

\* TokenIterator: the fields as a record
TokenIterator(char_iter, sm, buffered) ==
    [char_iter |-> char_iter, state_machine |-> sm, buffered_token |-> buffered]

\* TokenIterator::new
TokenIteratorNew(text) ==
    TokenIterator(CharacterIterNew(text), TokenizerNew, <<>>)

\* mutant: the second token of a step is not buffered
TokenIteratorOkArm_DropSecond(tokens, after) ==
    IF tokens # <<>>
    THEN [done |-> TRUE, ret |-> RetOk(Head(tokens)), self |-> after]
    ELSE [done |-> FALSE, ret |-> RetNone, self |-> after]

\* the Ok arm of the loop of TokenIterator::next, with tokens the deque
\* collect_tokens returned and after the iterator then: [done, ret, self]
TokenIteratorOkArm(tokens, after) ==
    IF tokens # <<>>
    THEN [done |-> TRUE,
          ret |-> RetOk(Head(tokens)),
          self |-> [after EXCEPT !.buffered_token =
                        IF Tail(tokens) # <<>>
                        THEN <<Head(Tail(tokens))>> ELSE <<>>]]
    ELSE [done |-> FALSE, ret |-> RetNone, self |-> after]

TokenIteratorCollect(it, col) ==
    TokenIteratorOkArm(col.tokens, TokenIterator(it, col.sm, <<>>))

\* the match on process_character's result p, with it the character source
\* after the character was read
TokenIteratorMatch(it, p) ==
    IF p.ok
    THEN TokenIteratorCollect(it, collect_tokens(p.sm))
    ELSE [done |-> TRUE, ret |-> RetErr(p.err),
          self |-> TokenIterator(it, p.sm, <<>>)]

\* mutant: the end of the character source is returned as an error
TokenIteratorTurn_EndIsError(self, c) ==
    IF c.ret = <<>>
    THEN [done |-> TRUE,
          ret |-> RetErr([kind |-> "UnterminatedString", loc |-> c.it.location]),
          self |-> [self EXCEPT !.char_iter = c.it]]
    ELSE TokenIteratorMatch(c.it, process_character(self.state_machine, c.ret[1]))

\* one turn of the while loop of TokenIterator::next, with c what
\* self.char_iter.next() returned: [done, ret, self]
TokenIteratorTurn(self, c) ==
    IF c.ret = <<>>
    THEN [done |-> TRUE, ret |-> RetNone,
          self |-> [self EXCEPT !.char_iter = c.it]]
    ELSE TokenIteratorMatch(c.it, process_character(self.state_machine, c.ret[1]))

\* the while loop of TokenIterator::next:
\* [ret, self, pulled] with pulled the returns of char_iter.next() in order
RECURSIVE TokenIteratorLoop(_, _)
TokenIteratorLoopOn(t, pulled) ==
    IF t.done
    THEN [ret |-> t.ret, self |-> t.self, pulled |-> pulled]
    ELSE TokenIteratorLoop(t.self, pulled)

TokenIteratorLoopRead(self, pulled, c) ==
    TokenIteratorLoopOn(TokenIteratorTurn(self, c), Append(pulled, c.ret))

TokenIteratorLoop(self, pulled) ==
    TokenIteratorLoopRead(self, pulled, CharacterIterNext(self.char_iter))

\* mutant: a call that returns the buffered token also reads a character
TokenIteratorNext_ReadAhead(self) ==
    IF self.buffered_token # <<>>
    THEN [ret |-> RetOk(self.buffered_token[1]),
          self |-> [self EXCEPT !.buffered_token = <<>>,
                                !.char_iter = CharacterIterNext(@).it],
          pulled |-> <<CharacterIterNext(self.char_iter).ret>>]
    ELSE TokenIteratorLoop(self, <<>>)

\* TokenIterator::next
TokenIteratorNext(self) ==
    IF self.buffered_token # <<>>
    THEN [ret |-> RetOk(self.buffered_token[1]),
          self |-> [self EXCEPT !.buffered_token = <<>>],
          pulled |-> <<>>]
    ELSE TokenIteratorLoop(self, <<>>)

-----------------------------------------------------------------------------
(* A whole run: the consumer pulls until the first None *)

\* what the first n calls of next() on the iterator self return, up to and
\* including the first None
RECURSIVE Collect(_, _)
CollectOn(r, n) ==
    IF r.ret.tag = "None" THEN <<r.ret>> ELSE <<r.ret>> \o Collect(r.self, n - 1)

Collect(self, n) ==
    IF n = 0 THEN <<>> ELSE CollectOn(TokenIteratorNext(self), n)

\* tokenize(text), drained: at most two results per item of the character
\* source, then None
Lex(text) == Collect(TokenIteratorNew(text), 2 * (Len(text) + 1) + 1)

-----------------------------------------------------------------------------
(* Page storage (storage/page.rs, page_io.rs, page_manager.rs).  A Page is   *)
(* the sequence of its bytes.  A Result is [ok |-> TRUE, ...] or             *)
(* [ok |-> FALSE, err |-> <<variant, ...>>].                                 *)

\* Page::full
PageFull(value, page_size) == [i \in 1..page_size |-> value]

\* PageIO::page_offset
page_offset(page_id, page_size) == page_id * page_size

\* PageIO::read_page: read_exact of page_size bytes at the page's offset
PageIO_read_page(f, page_id, page_size) ==
    IF page_offset(page_id, page_size) + page_size <= Len(f)
    THEN [ok |-> TRUE,
          page |-> SubSeq(f, page_offset(page_id, page_size) + 1,
                          page_offset(page_id, page_size) + page_size)]
    ELSE [ok |-> FALSE, err |-> <<"PageIOError", "PageNotFound">>]

\* seek to offset and write_all(data): the file grows, zero-filled, when the
\* offset is past its end
WriteAt(f, offset, data) ==
    [i \in 1..(IF Len(f) > offset + Len(data) THEN Len(f) ELSE offset + Len(data)) |->
        IF i > offset /\ i <= offset + Len(data) THEN data[i - offset]
        ELSE IF i <= Len(f) THEN f[i]
        ELSE 0]

\* PageIO::write_page: [ok, file]
PageIO_write_page(f, page_id, page_size, page) ==
    IF Len(page) # page_size
    THEN [ok |-> FALSE, err |-> <<"PageIOError", "InvalidPageSize">>, file |-> f]
    ELSE [ok |-> TRUE, file |-> WriteAt(f, page_offset(page_id, page_size), page)]

\* lru::LruCache<u64, Page>: the entries [page_id, page], most recently used
\* first
LruContains(cache, page_id) ==
    \E i \in DOMAIN cache : cache[i].page_id = page_id

LruWithout(cache, page_id) ==
    SelectSeq(cache, LAMBDA e : e.page_id # page_id)

\* mutant: put never evicts
LruPut_NoEvict(cache, cap, page_id, page) ==
    <<[page_id |-> page_id, page |-> page]>> \o LruWithout(cache, page_id)

\* LruCache::put: an entry of the key is replaced; else the least recently
\* used entry is evicted when the cache is full
LruPut(cache, cap, page_id, page) ==
    IF LruContains(cache, page_id) \/ Len(cache) < cap
    THEN <<[page_id |-> page_id, page |-> page]>> \o LruWithout(cache, page_id)
    ELSE <<[page_id |-> page_id, page |-> page]>> \o SubSeq(cache, 1, cap - 1)

\* LruCache::get on a key the cache holds: the entry becomes the most
\* recently used
LruEntry(cache, page_id) ==
    cache[CHOOSE i \in DOMAIN cache : cache[i].page_id = page_id]

LruGet(cache, page_id) ==
    <<LruEntry(cache, page_id)>> \o LruWithout(cache, page_id)

\* LruCache::pop
LruPop(cache, page_id) == LruWithout(cache, page_id)

\* PageManager: page_io is the page file, cap the capacity of the cache
PageManager(cache, cap, page_size) ==
    [cache |-> cache, cap |-> cap, page_size |-> page_size]

\* PageManager::new
PageManager_new(page_size, cache_size) ==
    IF cache_size = 0
    THEN [ok |-> FALSE, err |-> <<"InvalidCacheSize">>]
    ELSE [ok |-> TRUE, manager |-> PageManager(<<>>, cache_size, page_size)]

\* PageManagerBuilder::build
PageManagerBuilder_build(page_size, cache_size) ==
    IF page_size = 0
    THEN [ok |-> FALSE, err |-> <<"PageDecodeError", "InvalidPageSize">>]
    ELSE PageManager_new(page_size, cache_size)

\* PageManager::get_page, with read what page_io.read_page returns on a miss:
\* [ok, page | err, self]
get_page_filled(self, page_id, read) ==
    IF ~read.ok
    THEN [ok |-> FALSE, err |-> read.err, self |-> self]
    ELSE [ok |-> TRUE, page |-> read.page,
          self |-> [self EXCEPT !.cache =
                        LruGet(LruPut(@, self.cap, page_id, read.page), page_id)]]

get_page(self, f, page_id) ==
    IF ~LruContains(self.cache, page_id)
    THEN get_page_filled(self, page_id, PageIO_read_page(f, page_id, self.page_size))
    ELSE [ok |-> TRUE, page |-> LruEntry(self.cache, page_id).page,
          self |-> [self EXCEPT !.cache = LruGet(@, page_id)]]

\* PageManager::write_page, with w what page_io.write_page returns:
\* [ok, self, file]
write_page_put(self, page_id, page, w) ==
    IF ~w.ok
    THEN [ok |-> FALSE, err |-> w.err, self |-> self, file |-> w.file]
    ELSE [ok |-> TRUE, file |-> w.file,
          self |-> [self EXCEPT !.cache = LruPut(@, self.cap, page_id, page)]]

\* mutant: the page is put in the cache only, the file is written on flush
write_page_CacheOnly(self, f, page_id, page) ==
    [ok |-> TRUE, file |-> f,
     self |-> [self EXCEPT !.cache = LruPut(@, self.cap, page_id, page)]]

write_page(self, f, page_id, page) ==
    write_page_put(self, page_id, page,
                   PageIO_write_page(f, page_id, self.page_size, page))

\* PageManager::invalidate
invalidate(self, page_id) == [self EXCEPT !.cache = LruPop(@, page_id)]

\* PageManager::flush: every cached page is written to the file, in the
\* order of the cache's iterator; the first failure ends the loop
RECURSIVE flush_from(_, _, _)
flush_step(self, i, w) ==
    IF ~w.ok
    THEN [ok |-> FALSE, err |-> w.err, file |-> w.file]
    ELSE flush_from(self, w.file, i + 1)

flush_from(self, f, i) ==
    IF i > Len(self.cache)
    THEN [ok |-> TRUE, file |-> f]
    ELSE flush_step(self, i,
             PageIO_write_page(f, self.cache[i].page_id, self.page_size,
                               self.cache[i].page))

flush(self, f) == flush_from(self, f, 1)

\* the page ids, page sizes, cache sizes and pages the callers use
PageIds == 0..MaxPageId

PageSizes == {0, 1, 2}

CacheSizes == {0, 1, 2}

Bytes == {1, 2}

Pages == {PageFull(v, n) : v \in Bytes, n \in {1, 2}} \cup {<<1, 2>>}

\* no page manager is built yet and the page file is empty
PagesIdle ==
    /\ file = <<>>
    /\ manager = <<>>
    /\ page_result = [op |-> "none"]
    /\ written = [id \in PageIds |-> <<>>]

-----------------------------------------------------------------------------
(* The state machine of a run *)

RECURSIVE SeqsOfLen(_, _)
SeqsOfLen(S, n) ==
    IF n = 0 THEN {<<>>}
    ELSE {Append(s, c) : s \in SeqsOfLen(S, n - 1), c \in S}

SeqsUpTo(S, n) == UNION {SeqsOfLen(S, k) : k \in 0..n}

\* the characters of the lexer's cases: a letter, a digit, the decimal point,
\* the comment dash, the operator characters, whitespace, the quote, a
\* separator and the NUL character
Alphabet == {"a", "1", ".", "-", ">", "<", "=", "!", " ", "\n", "\"", ",", NUL}

\* the characters of the words spelling the keyword AS in either case
WordAlphabet == {"a", "s", "A", "S", " "}

\* a table word in lower case, and with its letters alternately lower and
\* upper case
LowerSpelling(w) ==
    [i \in DOMAIN w |-> Lower[CHOOSE j \in 1..26 : Upper[j] = w[i]]]

MixedSpelling(w) ==
    [i \in DOMAIN w |-> IF i % 2 = 1 THEN LowerSpelling(w)[i] ELSE w[i]]

\* every word of the keyword table, in three spellings, as a whole input
KeywordInputs ==
    UNION {{KeywordTable[k], LowerSpelling(KeywordTable[k]),
            MixedSpelling(KeywordTable[k])} : k \in DOMAIN KeywordTable}

Inputs ==
    SeqsUpTo(Alphabet, MaxLen) \cup SeqsUpTo(WordAlphabet, MaxLen)
        \cup KeywordInputs

Self == TokenIterator([input |-> input, chars |-> chars, location |-> location],
                      state_machine, buffered_token)

Init ==
    /\ sql \in Inputs
    /\ input = CharacterIterNew(sql).input
    /\ chars = CharacterIterNew(sql).chars
    /\ location = CharacterIterNew(sql).location
    /\ state_machine = TokenIteratorNew(sql).state_machine
    /\ buffered_token = TokenIteratorNew(sql).buffered_token
    /\ results = <<>>
    /\ char_results = <<>>
    /\ PagesIdle

\* one call of TokenIterator::next by the consumer
Returned(r) ==
    /\ input' = r.self.char_iter.input
    /\ chars' = r.self.char_iter.chars
    /\ location' = r.self.char_iter.location
    /\ state_machine' = r.self.state_machine
    /\ buffered_token' = r.self.buffered_token
    /\ results' = Append(results, r.ret)
    /\ char_results' = char_results \o r.pulled

\* the calls that returned None
Nones == {i \in DOMAIN results : results[i] = RetNone}

Pull ==
    /\ Len(results) < MaxCalls
    /\ Cardinality(Nones) < MaxNones
    /\ Returned(TokenIteratorNext(Self))
    /\ UNCHANGED sql
    /\ UNCHANGED page_vars

Next == Pull

Spec == Init /\ [][Next]_vars

\* the character source driven on its own: one call of CharacterIter::next
CharReturned(c) ==
    /\ input' = c.it.input
    /\ chars' = c.it.chars
    /\ location' = c.it.location
    /\ char_results' = Append(char_results, c.ret)

CharPull ==
    /\ Len(char_results) < MaxCalls
    /\ CharReturned(CharacterIterNext(Self.char_iter))
    /\ UNCHANGED <<sql, state_machine, buffered_token, results>>
    /\ UNCHANGED page_vars

NextChars == CharPull

SpecChars == Init /\ [][NextChars]_vars

\* the page storage driven by a caller: no text is being lexed
InitPages ==
    /\ sql = <<>>
    /\ input = CharacterIterNew(sql).input
    /\ chars = CharacterIterNew(sql).chars
    /\ location = CharacterIterNew(sql).location
    /\ state_machine = TokenIteratorNew(sql).state_machine
    /\ buffered_token = TokenIteratorNew(sql).buffered_token
    /\ results = <<>>
    /\ char_results = <<>>
    /\ PagesIdle

\* PageManagerBuilder::new(db_path).page_size(..).cache_size(..).build()
Built(page_size, cache_size, b) ==
    /\ manager' = IF b.ok THEN <<b.manager>> ELSE <<>>
    /\ page_result' = [op |-> "build", page_size |-> page_size,
                       cache_size |-> cache_size,
                       ret |-> IF b.ok THEN [ok |-> TRUE] ELSE b]

Build ==
    /\ manager = <<>>
    /\ \E page_size \in PageSizes : \E cache_size \in CacheSizes :
           Built(page_size, cache_size,
                 PageManagerBuilder_build(page_size, cache_size))
    /\ UNCHANGED <<file, written>>
    /\ UNCHANGED lexer_vars

\* manager.get_page(page_id)
Got(page_id, g) ==
    /\ manager' = <<g.self>>
    /\ page_result' = [op |-> "get_page", page_id |-> page_id,
                       miss |-> ~LruContains(manager[1].cache, page_id),
                       ret |-> IF g.ok THEN [ok |-> TRUE, page |-> g.page]
                                       ELSE [ok |-> FALSE, err |-> g.err]]

GetPage ==
    /\ manager # <<>>
    /\ \E page_id \in PageIds : Got(page_id, get_page(manager[1], file, page_id))
    /\ UNCHANGED <<file, written>>
    /\ UNCHANGED lexer_vars

\* manager.write_page(page_id, page)
Wrote(page_id, page, w) ==
    /\ manager' = <<w.self>>
    /\ file' = w.file
    /\ written' = IF w.ok THEN [written EXCEPT ![page_id] = <<page>>] ELSE written
    /\ page_result' = [op |-> "write_page", page_id |-> page_id,
                       ret |-> IF w.ok THEN [ok |-> TRUE]
                                       ELSE [ok |-> FALSE, err |-> w.err]]

WritePage ==
    /\ manager # <<>>
    /\ \E page_id \in PageIds : \E page \in Pages :
           Wrote(page_id, page, write_page(manager[1], file, page_id, page))
    /\ UNCHANGED lexer_vars

\* manager.invalidate(page_id)
Invalidate ==
    /\ manager # <<>>
    /\ \E page_id \in PageIds :
           /\ manager' = <<invalidate(manager[1], page_id)>>
           /\ page_result' = [op |-> "invalidate", page_id |-> page_id]
    /\ UNCHANGED <<file, written>>
    /\ UNCHANGED lexer_vars

\* manager.flush()
Flushed(fl) ==
    /\ file' = fl.file
    /\ page_result' = [op |-> "flush",
                       ret |-> IF fl.ok THEN [ok |-> TRUE]
                                        ELSE [ok |-> FALSE, err |-> fl.err]]

Flush ==
    /\ manager # <<>>
    /\ Flushed(flush(manager[1], file))
    /\ UNCHANGED <<manager, written>>
    /\ UNCHANGED lexer_vars

NextPages == Build \/ GetPage \/ WritePage \/ Invalidate \/ Flush

SpecPages == InitPages /\ [][NextPages]_vars

-----------------------------------------------------------------------------
(* Whole runs of the parts, for stating properties of a run *)

\* every item the character source it yields before it returns None
RECURSIVE CharacterItems(_)
CharacterItemsOn(c) ==
    IF c.ret = <<>> THEN <<>> ELSE c.ret \o CharacterItems(c.it)

CharacterItems(it) == CharacterItemsOn(CharacterIterNext(it))

\* the items of the text: CharacterIter::new(text), drained
ItemsOf(text) == CharacterItems(CharacterIterNew(text))

\* the state machine after one more item, with the tokens it completed so far:
\* process_character, then collect_tokens when it returned Ok
MachineStepOn(run, p) ==
    IF p.ok
    THEN [sm |-> collect_tokens(p.sm).sm,
          tokens |-> run.tokens \o collect_tokens(p.sm).tokens]
    ELSE [sm |-> p.sm, tokens |-> run.tokens]

\* TokenizerStateMachine::new() driven over the first k of the items
RECURSIVE MachineRun(_, _)
MachineStep(run, item) == MachineStepOn(run, process_character(run.sm, item))

MachineRun(items, k) ==
    IF k = 0
    THEN [sm |-> TokenizerNew, tokens |-> <<>>]
    ELSE MachineStep(MachineRun(items, k - 1), items[k])

\* runs[k + 1] = MachineRun(items, k), for k up to n
RECURSIVE MachineRuns(_, _)
MachineRunsOn(runs, items, n) == Append(runs, MachineStep(runs[n], items[n]))

MachineRuns(items, n) ==
    IF n = 0
    THEN <<[sm |-> TokenizerNew, tokens |-> <<>>]>>
    ELSE MachineRunsOn(MachineRuns(items, n - 1), items, n)

-----------------------------------------------------------------------------
(* Properties *)

\* (row, col) order of CharacterLocation
LocLe(a, b) == a.row < b.row \/ (a.row = b.row /\ a.col <= b.col)

Calls == 1..Len(results)

IsOk(i) == results[i].tag = "Ok"
IsErr(i) == results[i].tag = "Err"
IsNone(i) == results[i].tag = "None"

\* the token items the calls so far returned, in order
RECURSIVE OkItemsOf(_)
OkItemsOf(rs) ==
    IF rs = <<>> THEN <<>>
    ELSE (IF Head(rs).tag = "Ok" THEN <<Head(rs).item>> ELSE <<>>)
         \o OkItemsOf(Tail(rs))

\* the items the character source has yielded so far, in order
RECURSIVE SomeItemsOf(_)
SomeItemsOf(cs) ==
    IF cs = <<>> THEN <<>> ELSE Head(cs) \o SomeItemsOf(Tail(cs))

\* the run is over: a call returned None
Finished == \E i \in Calls : IsNone(i)

NoError == \A i \in Calls : ~IsErr(i)

\* C1: once next() has returned an Err, every later call returns None.
C1_ErrThenNone ==
    \A i \in Calls : \A j \in Calls :
        (IsErr(i) /\ i < j) => IsNone(j)

\* C2: after next() has returned an Err no later call returns Ok(token), and
\* the state machine is in the Invalid mode from then on.
C2_NoTokenAfterErr ==
    /\ \A i \in Calls : \A j \in Calls : (IsErr(i) /\ i < j) => ~IsOk(j)
    /\ (\E i \in Calls : IsErr(i)) =>
           (state_machine.state = "Invalid" /\ buffered_token = <<>>)

\* C2 witness: an error was returned with characters still unread, and the
\* consumer has called next() again
C2_Witness ==
    \E i \in Calls : IsErr(i) /\ i + 1 \in Calls /\ ~IsNone(i + 1)

\* C3: for tokens t1 yielded before t2, t1.end precedes or equals t2.start.
C3_PositionMonotone ==
    \A i \in Calls : \A j \in Calls :
        (i < j /\ IsOk(i) /\ IsOk(j)) =>
            LocLe(results[i].item.end, results[j].item.start)

-----------------------------------------------------------------------------
(* The text a run accounts for *)

LocLt(a, b) == LocLe(a, b) /\ a # b

\* the location of the k-th character of the text
LocationAt(text, k) == ItemsOf(text)[k].location

\* how the grammar reads the characters of the text from the k-th on, one
\* label each: "code" outside string literals and comments (the opening quote
\* and the newline ending a comment included), "string" inside a literal (the
\* closing quote included), "comment" from the first dash of `--` to the
\* character before the newline
RECURSIVE ReadFrom(_, _, _)
ReadFrom(text, k, mode) ==
    IF k > Len(text) THEN <<>>
    ELSE CASE mode = "string" ->
                  <<"string">> \o
                  ReadFrom(text, k + 1, IF text[k] = "\"" THEN "code" ELSE "string")
           [] mode = "comment" ->
                  IF text[k] = "\n"
                  THEN <<"code">> \o ReadFrom(text, k + 1, "code")
                  ELSE <<"comment">> \o ReadFrom(text, k + 1, "comment")
           [] OTHER ->
                  IF text[k] = "\""
                  THEN <<"code">> \o ReadFrom(text, k + 1, "string")
                  ELSE IF text[k] = "-" /\ k < Len(text) /\ text[k + 1] = "-"
                  THEN <<"comment">> \o ReadFrom(text, k + 1, "comment")
                  ELSE <<"code">> \o ReadFrom(text, k + 1, "code")

ReadAs(text) == ReadFrom(text, 1, "code")

\* the text with each comment body removed
RECURSIVE StripFrom(_, _, _)
StripFrom(text, labels, k) ==
    IF k > Len(text) THEN <<>>
    ELSE (IF labels[k] = "comment" THEN <<>> ELSE <<text[k]>>)
         \o StripFrom(text, labels, k + 1)

StripComments(text) == StripFrom(text, ReadAs(text), 1)

\* the characters, among the items from the k-th on, at the locations from
\* start to end, end excluded (closed = FALSE) or included (closed = TRUE)
RECURSIVE SpanFrom(_, _, _, _, _)
SpanFrom(items, start, end, closed, k) ==
    IF k > Len(items) THEN <<>>
    ELSE (IF /\ LocLe(start, items[k].location)
             /\ (LocLt(items[k].location, end)
                 \/ (closed /\ items[k].location = end))
          THEN <<items[k].character>> ELSE <<>>)
         \o SpanFrom(items, start, end, closed, k + 1)

\* the text a token item's span denotes
SpanText(text, item, closed) ==
    SpanFrom(SubSeq(ItemsOf(text), 1, Len(text)), item.start, item.end, closed, 1)

\* the texts the spans of the first k token items can denote together, each
\* span read with its end excluded or included
RECURSIVE SpanConcats(_, _, _)
SpanConcats(text, items, k) ==
    IF k = 0 THEN {<<>>}
    ELSE {before \o SpanText(text, items[k], closed) :
              before \in SpanConcats(text, items, k - 1), closed \in BOOLEAN}

HasNul(text) == \E k \in 1..Len(text) : text[k] = NUL

\* C4: when the input (without NUL) lexes without error, the spans of the yielded tokens, in
\* output order, are consecutive pieces of the input whose concatenation is the
\* input with comment bodies removed (each span read with its end excluded or
\* included, whichever fits).
C4_SpansReconstruct ==
    (Finished /\ NoError /\ ~HasNul(sql)) =>
        StripComments(sql) \in
            SpanConcats(sql, OkItemsOf(results), Len(OkItemsOf(results)))

\* the symbols of the operator table
OperatorSymbols ==
    {<<"+">>, <<"/">>, <<"=">>, <<">">>, <<">", "=">>, <<"<">>, <<"<", "=">>,
     <<"%">>, <<"*">>, <<"!", "=">>, <<")">>, <<"(">>, <<"-">>}

\* a token written back as its text
TokenText(token) ==
    CASE token.kind = "Keyword" -> KeywordTable[token.name]
      [] token.kind = "Identifier" -> token.text
      [] token.kind = "Number" -> token.text
      [] token.kind = "String" -> <<"\"">> \o token.text \o <<"\"">>
      [] token.kind = "Separator" ->
             IF token.name = "Comma" THEN <<",">> ELSE <<";">>
      [] token.kind = "Whitespace" ->
             CHOOSE w \in {<<" ">>, <<"\t">>, <<"\n">>} : WhitespaceMatch(w) = token.name
      [] token.kind = "Operator" ->
             CHOOSE o \in OperatorSymbols : OperatorMatch(o) = token.name

\* the token items from the k-th on, written back, are the text from its
\* m-th character on, keywords compared without regard to letter case
RECURSIVE WritesBack(_, _, _, _)
WritesBack(items, k, text, m) ==
    IF k > Len(items) THEN m = Len(text) + 1
    ELSE LET t == TokenText(items[k].token)
             last == m + Len(t) - 1
         IN /\ last <= Len(text)
            /\ LET piece == SubSeq(text, m, last) IN
                   IF items[k].token.kind = "Keyword"
                   THEN to_uppercase(piece) = t
                   ELSE piece = t
            /\ WritesBack(items, k + 1, text, last + 1)

\* C5: when an input without NUL lexes without error, the yielded tokens,
\* written back as text and concatenated in output order, give the input with
\* each comment body removed, up to the letter case of keywords.
C5_TokensWriteBackInput ==
    (Finished /\ NoError /\ ~HasNul(sql)) =>
        WritesBack(OkItemsOf(results), 1, StripComments(sql), 1)

TwoCharOperators == {<<">", "=">>, <<"<", "=">>, <<"!", "=">>}

\* a two-character operator read outside strings and comments begins at the
\* k-th character, at the start of the input or directly after whitespace
PairAt(k) ==
    /\ k + 1 <= Len(sql)
    /\ <<sql[k], sql[k + 1]>> \in TwoCharOperators
    /\ (k = 1 \/ sql[k - 1] \in {" ", "\t", "\n"})
    /\ ReadAs(sql)[k] = "code"

\* the calls that returned a token ending at the location of the k-th
\* character (of the sentinel, when k = Len(sql) + 1)
EndingAt(k) ==
    {i \in Calls : IsOk(i) /\ results[i].item.end = LocationAt(sql, k)}

\* C6: each of `>=`, `<=`, `!=` at the start of the input or directly after
\* whitespace, outside strings and comments, is yielded as exactly one operator
\* token (GtEq, LtEq, NotEq) completed on its second character, and neither of
\* its characters is yielded as a token of its own.
C6_TwoCharOperatorOnce ==
    (Finished /\ NoError) =>
        \A k \in 1..Len(sql) :
            PairAt(k) =>
                /\ Cardinality(EndingAt(k + 1)) = 1
                /\ \A i \in EndingAt(k + 1) :
                       results[i].item.token =
                           Tok("Operator", OperatorMatch(<<sql[k], sql[k + 1]>>), <<>>)
                /\ \A i \in EndingAt(k + 2) :
                       results[i].item.token # Tok("Operator", "Eq", <<>>)

\* C7: every token the state machine completes is yielded exactly once and in
\* the order of completion: what the calls returned so far, followed by the
\* buffered second token, is what the state machine completed on the
\* characters read so far, so a buffered token is returned before any further
\* character is processed.
C7_TokensYieldedOnceInOrder ==
    /\ Len(buffered_token) <= 1
    /\ OkItemsOf(results) \o buffered_token =
           MachineRun(SomeItemsOf(char_results),
                      Len(SomeItemsOf(char_results))).tokens

\* C7 witness: the first character completed no token and the second one two,
\* returned by consecutive calls with no character read in between
C7_Witness ==
    /\ Len(SomeItemsOf(char_results)) = 2
    /\ Len(results) = 2 /\ IsOk(1) /\ IsOk(2)
    /\ MachineRun(SomeItemsOf(char_results), 1).tokens = <<>>
    /\ buffered_token = <<>>

\* C8: for a text of length n the character source yields one item per
\* character in order, then one sentinel item with no next character, then
\* None for good.
C8_ItemsThenSentinel ==
    \A i \in 1..Len(char_results) :
        /\ i <= Len(sql) =>
               /\ char_results[i] # <<>>
               /\ char_results[i][1].character = sql[i]
               /\ char_results[i][1].next_character =
                      (IF i < Len(sql) THEN <<sql[i + 1]>> ELSE <<>>)
        /\ i = Len(sql) + 1 =>
               /\ char_results[i] # <<>>
               /\ char_results[i][1].character = NUL
               /\ char_results[i][1].next_character = <<>>
        /\ i > Len(sql) + 1 => char_results[i] = <<>>

\* runs[k] is the state machine, with the tokens it has completed, before it
\* reads the k-th item of the input
SqlRuns == MachineRuns(ItemsOf(sql), Len(sql))

\* the same, up to the state machine after the sentinel
RunsOver(items) == MachineRuns(items, Len(items))

\* the number of items the character source has yielded so far
CharsRead == Len(SomeItemsOf(char_results))

\* the tokens handed to the consumer or buffered for the next call
TokensSoFar == OkItemsOf(results) \o buffered_token

\* the last call returned the first None of the run
JustFinished ==
    /\ results # <<>>
    /\ IsNone(Len(results))
    /\ \A i \in 1..(Len(results) - 1) : ~IsNone(i)

\* the k-th character is a quote that opens a string literal from Base mode
\* (reached directly or by the re-dispatch of Operator mode), and the literal
\* meets a newline or the end of input before a closing quote
OpensUnterminated(runs, k) ==
    /\ sql[k] = "\""
    /\ runs[k].sm.state \in {"Base", "Operator"}
    /\ runs[k + 1].sm.state = "String"
    /\ \A m \in (k + 1)..Len(sql) :
           sql[m] = "\"" => \E n \in (k + 1)..(m - 1) : sql[n] = "\n"

\* the calls returned the tokens toks, in order, and then the error err
YieldsThenErr(toks, err) ==
    Len(results) > Len(toks) =>
        /\ \A j \in 1..Len(toks) : results[j] = RetOk(toks[j])
        /\ results[Len(toks) + 1] = RetErr(err)

UnterminatedStringAt(items, runs) ==
    \A k \in 1..Len(sql) :
        OpensUnterminated(runs, k) =>
            YieldsThenErr(runs[k + 1].tokens,
                          [kind |-> "UnterminatedString", loc |-> items[k].location])

\* C9: a string literal opened in Base mode that meets a newline or the end of
\* input before a closing quote yields the tokens completed before the opening
\* quote and then Err(UnterminatedString) at the location of the opening quote.
C9_UnterminatedString ==
    JustFinished => UnterminatedStringAt(ItemsOf(sql), SqlRuns)

UnterminatedStringSeen(items, runs) ==
    \E i \in Calls : \E k \in 2..Len(sql) :
        /\ OpensUnterminated(runs, k)
        /\ results[i] = RetErr([kind |-> "UnterminatedString",
                                loc |-> items[k].location])

\* C9 witness: a token, then UnterminatedString for a quote that is not the
\* first character
C9_Witness ==
    /\ Len(results) >= 2 /\ IsOk(1)
    /\ UnterminatedStringSeen(ItemsOf(sql), SqlRuns)

\* the numeric literal being accumulated when the k-th character is read
\* began at the m-th character
LiteralFrom(runs, m, k) ==
    /\ m < k
    /\ runs[m].sm.state # "Number"
    /\ \A n \in (m + 1)..k : runs[n].sm.state = "Number"

\* the k-th character is a second `.` read while a numeric literal is being
\* accumulated
SecondDot(runs, k) ==
    /\ sql[k] = "."
    /\ runs[k].sm.state = "Number"
    /\ runs[k].sm.parsing_decimals

InvalidNumberAt(items, runs) ==
    \A k \in 1..Len(sql) : \A m \in 1..Len(sql) :
        (SecondDot(runs, k) /\ LiteralFrom(runs, m, k)) =>
            /\ YieldsThenErr(runs[k].tokens,
                             [kind |-> "InvalidNumber", loc |-> items[m].location])
            /\ \A i \in Calls :
                   IsOk(i) => ~(/\ results[i].item.token.kind = "Number"
                                /\ results[i].item.start = items[m].location)

\* C10: a second `.` read in a numeric literal yields the tokens completed
\* before the literal (those the state machine completed before it read that
\* `.`: the literal itself completes none) and then Err(InvalidNumber) at the
\* location of the literal's first character, and no Number token for the
\* literal.
C10_InvalidNumber ==
    JustFinished => InvalidNumberAt(ItemsOf(sql), SqlRuns)

InvalidNumberSeen(items, runs) ==
    \E i \in Calls : \E k \in 1..Len(sql) : \E m \in 2..Len(sql) :
        /\ SecondDot(runs, k) /\ LiteralFrom(runs, m, k)
        /\ results[i] = RetErr([kind |-> "InvalidNumber",
                                loc |-> items[m].location])

\* C10 witness: a token, then InvalidNumber for a literal that is not at the
\* start of the input
C10_Witness ==
    /\ Len(results) >= 2 /\ IsOk(1)
    /\ InvalidNumberSeen(ItemsOf(sql), SqlRuns)

\* the error is UnterminatedString at the location of a quote that opened a
\* string literal which no quote closed before a newline or the end of input
IsUnterminatedStringErr(err, items, runs) ==
    /\ err.kind = "UnterminatedString"
    /\ \E k \in 1..Len(sql) :
           OpensUnterminated(runs, k) /\ err.loc = items[k].location

\* the error is InvalidNumber at the location of the first character of a
\* numeric literal in which a second `.` was read
IsInvalidNumberErr(err, items, runs) ==
    /\ err.kind = "InvalidNumber"
    /\ \E k \in 1..Len(sql) : \E m \in 1..Len(sql) :
           /\ SecondDot(runs, k) /\ LiteralFrom(runs, m, k)
           /\ err.loc = items[m].location

ErrsAreTheTwoKinds(items, runs) ==
    \A i \in Calls :
        IsErr(i) => \/ IsUnterminatedStringErr(results[i].err, items, runs)
                    \/ IsInvalidNumberErr(results[i].err, items, runs)

\* C11: every Err the calls return is UnterminatedString at the location of an
\* opening quote whose literal was not closed before a newline or the end of
\* input, or InvalidNumber at the start location of a numeric literal in which
\* a second `.` was read (on inputs without a NUL character, which the lexer
\* reads as the end of input).
C11_ErrsAreTheTwoKinds ==
    ~HasNul(sql) => ErrsAreTheTwoKinds(ItemsOf(sql), SqlRuns)

\* the tokens yielded for the items a..(b - 1) of a finished run: those the
\* state machine completed while it read them
YieldedBetween(runs, a, b) ==
    SubSeq(TokensSoFar, Len(runs[a].tokens) + 1, Len(runs[b].tokens))

\* the k-th and the next character are `--`, and the k-th is read outside a
\* string literal and outside a comment
DashPairAt(runs, k) ==
    /\ k < Len(sql)
    /\ sql[k] = "-" /\ sql[k + 1] = "-"
    /\ runs[k].sm.state \in {"Base", "Operator", "Number"}

\* the index of the first newline after the k-th character, or of the item
\* after the sentinel
NextNewline(k) ==
    IF \E n \in (k + 1)..Len(sql) : sql[n] = "\n"
    THEN CHOOSE n \in (k + 1)..Len(sql) :
             sql[n] = "\n" /\ \A m \in (k + 1)..(n - 1) : sql[m] # "\n"
    ELSE Len(sql) + 2

IsSubtract(item) == item.token = Tok("Operator", "Subtract", <<>>)

DashPairsStartComments(runs) ==
    \A k \in 1..Len(sql) :
        DashPairAt(runs, k) =>
            /\ runs[k + 1].sm.state = "Comment"
            /\ \A i \in DOMAIN YieldedBetween(runs, k, k + 2) :
                   ~IsSubtract(YieldedBetween(runs, k, k + 2)[i])
            /\ YieldedBetween(runs, k + 1, NextNewline(k)) = <<>>

\* C12: every `--` read outside a string literal and outside a comment starts
\* a comment, whatever precedes it: the state machine enters Comment mode on
\* the first dash, neither dash is yielded as a Subtract operator, and no token
\* is yielded for the characters after the first dash up to the next newline.
C12_DashPairsStartComments ==
    (JustFinished /\ ~HasNul(sql)) => DashPairsStartComments(RunsOver(ItemsOf(sql)))

\* the k-th item is read in Comment mode
InComment(runs, k) == runs[k].sm.state = "Comment"

CommentSteps(items, runs) ==
    /\ \A k \in 1..Len(items) :
           InComment(runs, k) =>
               IF items[k].character = "\n"
               THEN /\ YieldedBetween(runs, k, k + 1) =
                           <<TokenItem(Tok("Whitespace", "Newline", <<>>),
                                       items[k].location, items[k].location)>>
                    /\ runs[k + 1].sm.state = "Base"
                    /\ runs[k + 1].sm.char_buffer = <<>>
               ELSE /\ YieldedBetween(runs, k, k + 1) = <<>>
                    /\ runs[k + 1].sm.state = "Comment"
                    /\ runs[k + 1].sm.char_buffer = runs[k].sm.char_buffer
    /\ (items # <<>> /\ InComment(runs, Len(items))) => NoError

\* C13: in Comment mode a character other than newline is discarded: no token,
\* the buffer does not grow, the mode stays Comment; the newline yields exactly
\* one Whitespace(Newline) token with start = end = the newline's location and
\* returns to Base with an empty buffer; a comment that runs to the end of
\* input yields no token and no error.
C13_CommentSteps ==
    JustFinished => CommentSteps(ItemsOf(sql), RunsOver(ItemsOf(sql)))

CommentEndedSeen(items, runs) ==
    \E k \in 3..Len(sql) :
        /\ InComment(runs, k - 1) /\ InComment(runs, k)
        /\ sql[k] = "\n"
        /\ \E i \in Calls : /\ IsOk(i)
                            /\ results[i].item.token.name = "Newline"
                            /\ results[i].item.start = items[k].location

\* C13 witness: a finished run that discarded a comment character and then
\* yielded the Newline token for the newline that ended the comment
C13_Witness ==
    JustFinished /\ CommentEndedSeen(ItemsOf(sql), RunsOver(ItemsOf(sql)))

\* digits with at most one `.`, and at least one digit
IsDecimalLiteral(text) ==
    /\ \A i \in DOMAIN text : text[i] \in Digits \/ text[i] = "."
    /\ Cardinality({i \in DOMAIN text : text[i] = "."}) <= 1
    /\ \E i \in DOMAIN text : text[i] \in Digits

\* C14: the payload of every Number token yielded is a valid decimal
\* literal: only digits and at most one `.`, with at least one digit.
C14_NumberPayloadValid ==
    \A i \in Calls :
        (IsOk(i) /\ results[i].item.token.kind = "Number") =>
            IsDecimalLiteral(results[i].item.token.text)

\* the k-th character is a quote read in String mode: it closes the literal
ClosesString(runs, k) == sql[k] = "\"" /\ runs[k].sm.state = "String"

\* the index of the quote that opened the literal the k-th character is in
OpeningQuote(runs, k) ==
    CHOOSE o \in 1..(k - 1) :
        /\ runs[o].sm.state # "String"
        /\ \A n \in (o + 1)..k : runs[n].sm.state = "String"

StringPayloads(items, runs) ==
    /\ \A k \in 1..Len(sql) :
           ClosesString(runs, k) =>
               /\ sql[OpeningQuote(runs, k)] = "\""
               /\ YieldedBetween(runs, k, k + 1) =
                      <<TokenItem(Tok("String", "",
                                      SubSeq(sql, OpeningQuote(runs, k) + 1, k - 1)),
                                  items[OpeningQuote(runs, k)].location,
                                  items[k].location)>>
    /\ \A i \in Calls :
           (IsOk(i) /\ results[i].item.token.kind = "String") =>
               /\ \A n \in DOMAIN results[i].item.token.text :
                      results[i].item.token.text[n] \notin {"\"", "\n"}
               /\ \E k \in 1..Len(sql) :
                      /\ ClosesString(runs, k)
                      /\ results[i].item.end = items[k].location

\* C15: the closing quote of a string literal yields one String token whose
\* payload is exactly the input characters strictly between the opening and
\* the closing quote (empty for an empty pair of quotes), unprocessed; every
\* String token yielded is the token of such a literal and its payload holds
\* no double quote and no newline.
C15_StringPayloads ==
    JustFinished => StringPayloads(ItemsOf(sql), RunsOver(ItemsOf(sql)))

\* C15 witness: a finished run that yielded a String token with a payload
C15_Witness ==
    /\ JustFinished
    /\ \E i \in Calls : /\ IsOk(i)
                        /\ results[i].item.token.kind = "String"
                        /\ results[i].item.token.text # <<>>

\* the token pending in the state machine sm when the input ends: the word
\* in the Base buffer, the literal of Number mode, the operator character of
\* Operator mode, classified as a token read anywhere else is
HasPending(sm) ==
    \/ sm.state = "Base" /\ sm.char_buffer # <<>>
    \/ sm.state = "Number"
    \/ sm.state = "Operator"

PendingToken(sm) ==
    CASE sm.state = "Base"     -> TokenFrom(sm.char_buffer)
      [] sm.state = "Number"   -> Tok("Number", "", sm.char_buffer)
      [] sm.state = "Operator" -> Tok("Operator", OperatorFrom(sm.char_buffer), <<>>)

\* the index of the sentinel among the items of a non-empty input
SentinelIndex == Len(sql) + 1

SentinelFlushes(runs) ==
    (sql # <<>> /\ HasPending(runs[SentinelIndex].sm)) =>
        /\ Len(YieldedBetween(runs, SentinelIndex, SentinelIndex + 1)) = 1
        /\ YieldedBetween(runs, SentinelIndex, SentinelIndex + 1)[1].token =
               PendingToken(runs[SentinelIndex].sm)
        /\ Len(results) >= 2
        /\ results[Len(results) - 1] =
               RetOk(YieldedBetween(runs, SentinelIndex, SentinelIndex + 1)[1])

\* C16: when the input ends while a token is pending (a word in the Base
\* buffer, a literal in Number mode, an operator character in Operator mode),
\* the sentinel yields exactly that token, classified as usual, as the last
\* token before None, and no token for the sentinel itself.
C16_SentinelFlushes ==
    JustFinished => SentinelFlushes(RunsOver(ItemsOf(sql)))

PendingSeen(runs) ==
    /\ Len(sql) >= 2
    /\ runs[SentinelIndex].sm.state = "Operator"
    /\ Len(results) >= 3
    /\ IsOk(Len(results) - 1)
    /\ results[Len(results) - 1].item.token.kind = "Operator"

\* C16 witness: a finished run whose input ended in Operator mode after other
\* tokens, the operator being the last token yielded
C16_Witness == JustFinished /\ PendingSeen(RunsOver(ItemsOf(sql)))

\* C17: every token the iterator yields, and the one it holds for the next
\* call, has start <= end in (row, col) order.
C17_StartBeforeEnd ==
    \A i \in DOMAIN TokensSoFar : LocLe(TokensSoFar[i].start, TokensSoFar[i].end)

\* C17 witness: a token was yielded whose start is strictly before its end
C17_Witness ==
    \E i \in Calls : IsOk(i) /\ LocLt(results[i].item.start, results[i].item.end)

\* the location after the one at loc, given the character found there
LocationAfter(character, loc) ==
    IF character = "\n" THEN Loc(loc.row + 1, 0) ELSE Loc(loc.row, loc.col + 1)

LocationsAdvance(items) ==
    /\ items # <<>> => items[1].location = Loc(0, 0)
    /\ \A i \in 2..Len(items) :
           /\ items[i].location =
                  LocationAfter(items[i - 1].character, items[i - 1].location)
           /\ LocLe(items[i - 1].location, items[i].location)

\* C18: the items of the character source carry the location of their
\* character, from (0, 0): after a character other than newline col grows by
\* one and row is unchanged, after a newline row grows by one and col is 0; so
\* locations never decrease, and the sentinel carries the location just past
\* the last character.
C18_LocationsAdvance == LocationsAdvance(SomeItemsOf(char_results))

\* C18 witness: the source has yielded the sentinel of a text that has a
\* newline before its last character
C18_Witness ==
    /\ Len(sql) >= 2
    /\ \E k \in 1..(Len(sql) - 1) : sql[k] = "\n"
    /\ CharsRead = Len(sql) + 1
    /\ SomeItemsOf(char_results)[CharsRead].character = NUL
    /\ results = <<>>

\* the variants of TokenizerStateMachine that hold a tokenizer
Modes == {"Base", "String", "Comment", "Operator", "Number"}

Letters == {Lower[i] : i \in 1..26} \cup {Upper[i] : i \in 1..26}

\* the variants of TokenizerError
ErrorKinds == {"UnterminatedString", "InvalidNumber"}

\* the lookaheads a character is tried with: none, the one Base mode tells
\* apart, and another
Lookaheads == {<<>>, <<"-">>, <<"a">>}

\* the step returned Ok with a next mode, its buffer and its tokens, or Err
\* with one of the two error kinds
DefinedOutcome(r) ==
    IF r.ok
    THEN /\ r.sm.state \in Modes
         /\ r.sm.char_buffer \in Seq(Alphabet \cup Letters)
         /\ DOMAIN r.sm.tokens = 1..Len(r.sm.tokens)
    ELSE r.err.kind \in ErrorKinds

StepsDefined(items, runs) ==
    \A k \in 1..Len(items) :
        runs[k].sm.state \in Modes =>
            \A n \in Lookaheads :
                DefinedOutcome(process_character_match(
                    runs[k].sm,
                    CharacterItem(items[k].character, n, items[k].location)))

\* C19: from each of the modes Base, String, Comment, Operator and Number,
\* the step on every character read, with any lookahead, has a defined
\* outcome: Ok with a next mode, its buffer and its tokens, or Err with one of
\* the two error kinds.
C19_StepsDefined ==
    JustFinished => StepsDefined(ItemsOf(sql), RunsOver(ItemsOf(sql)))

EveryKindOfStepSeen(runs) ==
    /\ Len(sql) = 3
    /\ runs[2].sm.state = "Operator"
    /\ runs[3].sm.state = "String"
    /\ runs[4].sm.state = "Invalid"

\* C19 witness: a finished run that stepped from Base to Operator, from
\* Operator to String, and from String to an error
C19_Witness == JustFinished /\ EveryKindOfStepSeen(RunsOver(ItemsOf(sql)))

\* the word is the table word w (upper case) with each letter in either case
IsSpellingOf(word, w) ==
    /\ Len(word) = Len(w)
    /\ \A i \in DOMAIN word :
           \/ word[i] = w[i]
           \/ \E j \in 1..26 : Upper[j] = w[i] /\ Lower[j] = word[i]

\* the texts of the separator, whitespace and operator entries
SymbolTexts == OperatorSymbols \cup {<<";">>, <<",">>, <<" ">>, <<"\t">>, <<"\n">>}

\* the token a flushed word is to be classified as
WordToken(word) ==
    IF \E k \in DOMAIN KeywordTable : IsSpellingOf(word, KeywordTable[k])
    THEN Tok("Keyword",
             CHOOSE k \in DOMAIN KeywordTable : IsSpellingOf(word, KeywordTable[k]),
             <<>>)
    ELSE Tok("Identifier", "", word)

\* the k-th item makes Base mode flush a word of its buffer
FlushesWord(runs, k) ==
    /\ runs[k].sm.state = "Base"
    /\ runs[k].sm.char_buffer # <<>>
    /\ runs[k].sm.char_buffer \notin SymbolTexts
    /\ Len(runs[k + 1].tokens) > Len(runs[k].tokens)

WordsClassified(items, runs) ==
    \A k \in 1..Len(items) :
        FlushesWord(runs, k) =>
            YieldedBetween(runs, k, k + 1)[1].token =
                WordToken(runs[k].sm.char_buffer)

\* C20: a word flushed from the Base buffer is yielded as the Keyword whose
\* table word it spells in any mix of upper and lower case, and as
\* Identifier with its text unchanged when it matches no separator, operator
\* or keyword entry.
C20_WordsClassified ==
    JustFinished => WordsClassified(ItemsOf(sql), RunsOver(ItemsOf(sql)))

\* C20 witness: a finished run that yielded the keyword SELECT for the word
\* "sElEcT"
C20_Witness ==
    /\ JustFinished
    /\ sql = <<"s", "E", "l", "E", "c", "T">>
    /\ results[1] = RetOk(TokenItem(Tok("Keyword", "Select", <<>>),
                                    results[1].item.start, results[1].item.end))

C22_ZeroPageSizeInvalidBytes ==
    (page_result.op = "build" /\ page_result.page_size = 0) =>
        /\ page_result.ret = [ok |-> FALSE, err |-> <<"PageDecodeError", "InvalidBytes">>]
        /\ manager = <<>>

\* the tokens the state machine completed on the k-th item
CompletedOn(runs, k) ==
    SubSeq(runs[k + 1].tokens, Len(runs[k].tokens) + 1, Len(runs[k + 1].tokens))

\* the tokens of token items, without their spans
TokensOf(token_items) == [i \in DOMAIN token_items |-> token_items[i].token]

\* what Base mode with an empty buffer does on the item
FromEmptyBase(item) ==
    Base_process_character(
        Tokenizer("Base", FALSE, <<>>, item.location, <<>>), item).sm

\* the k-th item ended in the mode and buffer, and after the token first
\* completed the further tokens, that Base mode with an empty buffer produces
\* for it; first is the token of the mode that ended
RedispatchedAs(runs, k, first, base) ==
    /\ runs[k + 1].sm.state = base.state
    /\ runs[k + 1].sm.char_buffer = base.char_buffer
    /\ TokensOf(CompletedOn(runs, k)) = <<first>> \o TokensOf(base.tokens)

\* the k-th character ends a numeric literal
EndsNumber(runs, items, k) ==
    /\ runs[k].sm.state = "Number"
    /\ items[k].character \notin Digits \cup {"."}

NumberRedispatches(items, runs) ==
    \A k \in 1..Len(items) :
        EndsNumber(runs, items, k) =>
            RedispatchedAs(runs, k, Tok("Number", "", runs[k].sm.char_buffer),
                           FromEmptyBase(items[k]))

\* C23: a character that is neither a digit nor `.` read in Number mode
\* completes the Number token and then leaves the machine in the mode and
\* buffer, with the further tokens, that Base mode with an empty buffer
\* produces for that character and lookahead.
C23_NumberRedispatches ==
    (JustFinished /\ ~HasNul(sql)) =>
        NumberRedispatches(ItemsOf(sql), RunsOver(ItemsOf(sql)))

\* the k-th character ends a one-character operator
EndsOperator(runs, items, k) ==
    /\ runs[k].sm.state = "Operator"
    /\ OperatorFrom(Append(runs[k].sm.char_buffer, items[k].character)) = "Invalid"

OperatorRedispatches(items, runs) ==
    /\ SomeItemsOf(char_results) = items
    /\ \A k \in 1..Len(items) :
           EndsOperator(runs, items, k) =>
               RedispatchedAs(runs, k,
                   Tok("Operator", OperatorFrom(runs[k].sm.char_buffer), <<>>),
                   FromEmptyBase(items[k]))

\* C24: in Operator mode, a character that does not make a two-character
\* operator with the buffered one completes the buffered character as a
\* one-character operator token and then leaves the machine in the mode and
\* buffer, with the further tokens, that Base mode with an empty buffer
\* produces for that character and lookahead; the character source yields
\* each item once.
C24_OperatorRedispatches ==
    JustFinished => OperatorRedispatches(ItemsOf(sql), RunsOver(ItemsOf(sql)))

OperatorRedispatchSeen(items, runs) ==
    /\ Len(sql) = 3
    /\ EndsOperator(runs, items, 2)
    /\ runs[3].sm.state = "String"
    /\ \E i \in Calls : IsOk(i) /\ results[i].item.token.kind = "String"

\* C24 witness: a finished run in which a quote ended a one-character
\* operator and opened a string literal that was then yielded
C24_Witness == JustFinished /\ OperatorRedispatchSeen(ItemsOf(sql), RunsOver(ItemsOf(sql)))

\* the k-th character completes a two-character operator with the one before
CompletesPair(runs, items, k) ==
    /\ runs[k].sm.state = "Operator"
    /\ OperatorFrom(Append(runs[k].sm.char_buffer, items[k].character)) # "Invalid"

PairsCoverBoth(items, runs) ==
    \A k \in 2..Len(items) :
        CompletesPair(runs, items, k) =>
            CompletedOn(runs, k) =
                <<TokenItem(Tok("Operator",
                                OperatorFrom(<<items[k - 1].character, items[k].character>>),
                                <<>>),
                            items[k - 1].location, items[k].location)>>

\* C25: a two-character operator token starts at the location of the
\* operator's first character and ends at the location of its second.
C25_PairsCoverBoth ==
    (JustFinished /\ ~HasNul(sql)) =>
        PairsCoverBoth(ItemsOf(sql), RunsOver(ItemsOf(sql)))

StepsCompleteAtMostTwo(items, runs) ==
    /\ \A k \in 1..Len(items) : Len(CompletedOn(runs, k)) <= 2
    /\ OkItemsOf(results) = runs[Len(items) + 1].tokens

\* C26: one step of the state machine completes at most two tokens, so the
\* iterator's buffer holds at most one token and, when the run is over, every
\* token the state machine completed has been yielded.
C26_StepsCompleteAtMostTwo ==
    /\ Len(buffered_token) <= 1
    /\ JustFinished => StepsCompleteAtMostTwo(ItemsOf(sql), RunsOver(ItemsOf(sql)))

\* C26 witness: a step completed two tokens; the call returned the first and
\* the second is in the buffer
C26_Witness ==
    /\ results # <<>>
    /\ IsOk(Len(results))
    /\ Len(buffered_token) = 1
    /\ buffered_token[1] # results[Len(results)].item

\* the k-th character is a digit or `.` read in Base mode
NumeralInBase(runs, items, k) ==
    /\ runs[k].sm.state = "Base"
    /\ items[k].character \in Digits \cup {"."}

EntersNumber(before, after, item) ==
    /\ after.state = "Number"
    /\ after.parsing_decimals = (item.character = ".")
    /\ after.char_buffer = <<item.character>>

JoinsWord(before, after, item) ==
    /\ after.state = "Base"
    /\ after.char_buffer = Append(before.char_buffer, item.character)

NumeralsInBase(items, runs) ==
    \A k \in 1..Len(items) :
        /\ NumeralInBase(runs, items, k) =>
            /\ CompletedOn(runs, k) = <<>>
            /\ IF runs[k].sm.char_buffer = <<>>
               THEN EntersNumber(runs[k].sm, runs[k + 1].sm, items[k])
               ELSE JoinsWord(runs[k].sm, runs[k + 1].sm, items[k])
        /\ (runs[k].sm.state = "Base" /\ runs[k + 1].sm.state = "Number") =>
            /\ runs[k].sm.char_buffer = <<>>
            /\ items[k].character \in Digits \cup {"."}

\* C27: a digit or `.` read in Base mode with an empty buffer switches to
\* Number mode, with the decimal flag set exactly when the character is `.`;
\* read with a non-empty buffer it is appended to the buffer, and Base mode
\* enters Number mode in no other case.
C27_NumeralsInBase ==
    JustFinished => NumeralsInBase(ItemsOf(sql), RunsOver(ItemsOf(sql)))

NumeralJoinedWord(items, runs) ==
    \E k \in 1..Len(items) :
        /\ NumeralInBase(runs, items, k)
        /\ items[k].character = "."
        /\ runs[k].sm.char_buffer # <<>>
        /\ runs[k + 1].sm.state = "Base"

\* C27 witness: a finished run in which a `.` read after the start of a word
\* joined the word
C27_Witness ==
    JustFinished /\ NumeralJoinedWord(ItemsOf(sql), RunsOver(ItemsOf(sql)))

\* the k-th character is a NUL of the text, read before the run failed
InnerNul(runs, items, k) ==
    /\ items[k].character = NUL
    /\ runs[k].sm.state # "Invalid"

\* the step flushed the Base buffer and kept it
FlushedAndKept(before, after, completed) ==
    /\ before.state = "Base"
    /\ before.char_buffer # <<>>
    /\ completed # <<>>
    /\ after.char_buffer = before.char_buffer

InnerNulsAreText(text, items, runs) ==
    \A k \in 1..Len(text) :
        InnerNul(runs, items, k) =>
            /\ runs[k + 1].sm.state # "Invalid"
            /\ ~FlushedAndKept(runs[k].sm, runs[k + 1].sm, CompletedOn(runs, k))

\* C28: a NUL inside the text is not handled as the end of input: its step
\* does not fail as an unterminated string does, and does not emit the Base
\* buffer as a token while keeping it for a later token.
C28_InnerNulsAreText ==
    JustFinished => InnerNulsAreText(sql, ItemsOf(sql), RunsOver(ItemsOf(sql)))

\* the state machine sm driven over the items: runs[k + 1] is the state
\* machine after the k-th item, with the tokens that item's step completed
RECURSIVE StepsFrom(_, _, _)
StepsFromOn(steps, items, n) ==
    Append(steps, MachineStep([sm |-> steps[n].sm, tokens |-> <<>>], items[n]))

StepsFrom(sm, items, n) ==
    IF n = 0
    THEN <<[sm |-> sm, tokens |-> <<>>]>>
    ELSE StepsFromOn(StepsFrom(sm, items, n - 1), items, n)

\* the step ended the call: it completed a token or failed
EndsCall(step) == step.tokens # <<>> \/ step.sm.state = "Invalid"

\* the call returned the buffered token and read nothing
BufferedPull(pulled) ==
    /\ pulled = <<>>
    /\ results' = Append(results, RetOk(buffered_token[1]))
    /\ buffered_token' = <<>>
    /\ UNCHANGED <<state_machine, input, chars, location>>

\* the call read the items and stopped at the first whose step ends a call,
\* or at the end of the character source
ReadingPull(pulled, items, steps) ==
    /\ pulled # <<>>
    /\ \A k \in 1..(Len(pulled) - 1) : pulled[k] # <<>> /\ ~EndsCall(steps[k + 1])
    /\ state_machine' = steps[Len(items) + 1].sm
    /\ IF pulled[Len(pulled)] = <<>>
       THEN results' = Append(results, RetNone)
       ELSE /\ EndsCall(steps[Len(items) + 1])
            /\ results'[Len(results')] # RetNone

PullReads(pulled, items) ==
    IF buffered_token # <<>>
    THEN BufferedPull(pulled)
    ELSE ReadingPull(pulled, items, StepsFrom(state_machine, items, Len(items)))

PullReadsWhatItNeeds ==
    PullReads(SubSeq(char_results', Len(char_results) + 1, Len(char_results')),
              SomeItemsOf(SubSeq(char_results', Len(char_results) + 1, Len(char_results'))))

\* C29: a call of next that returns the buffered token reads no character
\* and leaves the state machine as it was; any other call reads characters
\* up to the first whose step completes a token or fails, or to the end of
\* the source, and no further.
C29_PullReadsWhatItNeeds == [][PullReadsWhatItNeeds]_vars

\* C29 witness: the step of the last character read completed two tokens,
\* both were returned, the second by a call that read nothing, and a
\* character of the text is still unread
C29_Witness ==
    /\ CharsRead \in 1..(Len(sql) - 1)
    /\ buffered_token = <<>>
    /\ Len(CompletedOn(RunsOver(ItemsOf(sql)), CharsRead)) = 2
    /\ Len(OkItemsOf(results)) = Len(RunsOver(ItemsOf(sql))[CharsRead + 1].tokens)

\* the most results other than None a text can have: two per character and
\* two for the end-of-input item
MostResults(text) == 2 * (Len(text) + 1)

NoneInTime == Cardinality(Calls \ Nones) <= MostResults(sql)

NoneIsFinal == \A i \in Calls : IsNone(i) => \A j \in i..Len(results) : IsNone(j)

\* C30: the calls of next, made until None is returned, return at most two
\* results per character of the text and two for the end-of-input item
\* before None, and every call after one that returned None returns None.
C30_NoneInTimeAndFinal == NoneInTime /\ NoneIsFinal

\* C30 witness: a text short enough for more calls than its bound had as
\* many results as characters, and then None twice
C30_Witness ==
    /\ MostResults(sql) < MaxCalls
    /\ Len(results) = Len(sql) + MaxNones
    /\ Len(sql) > 1
    /\ IsNone(Len(results) - 1)
    /\ IsNone(Len(results))

\* the characters that end a word: whitespace, `;` and `,`, the
\* one-character operators, the double quote and NUL
WordEnders ==
    {" ", "\t", "\n", ";", ",", "\"", NUL}
        \cup {sym[1] : sym \in {o \in OperatorSymbols : Len(o) = 1}}

IsWordText(text) ==
    /\ text # <<>>
    /\ \A k \in DOMAIN text : text[k] \notin WordEnders

\* C31: the text of every Identifier token yielded is non-empty and holds no
\* whitespace, no `;` or `,`, no one-character operator, no double quote and
\* no NUL.
C31_IdentifiersAreWords ==
    \A i \in Calls :
        (IsOk(i) /\ results[i].item.token.kind = "Identifier") =>
            IsWordText(results[i].item.token.text)

\* the cache of the manager m holds at most its capacity, one entry per id,
\* and every entry is the page the file f holds under its id
CacheCoherent(m, f) ==
    /\ Len(m.cache) <= m.cap
    /\ \A i \in DOMAIN m.cache : \A j \in DOMAIN m.cache :
           m.cache[i].page_id = m.cache[j].page_id => i = j
    /\ \A i \in DOMAIN m.cache :
           PageIO_read_page(f, m.cache[i].page_id, m.page_size) =
               [ok |-> TRUE, page |-> m.cache[i].page]

\* what flush and invalidate leave alone in a step
FlushKeepsFile ==
    page_result'.op = "flush" => (file' = file /\ page_result'.ret.ok)

InvalidateKeepsFile ==
    page_result'.op = "invalidate" =>
        /\ file' = file
        /\ manager'[1].cache = LruWithout(manager[1].cache, page_result'.page_id)
        /\ manager'[1].cap = manager[1].cap
        /\ manager'[1].page_size = manager[1].page_size

WriteThrough ==
    /\ manager' # <<>> => CacheCoherent(manager'[1], file')
    /\ FlushKeepsFile
    /\ InvalidateKeepsFile

FailedWriteKeepsAll ==
    (page_result'.op = "write_page" /\ ~page_result'.ret.ok) =>
        /\ page_result'.ret.err = <<"PageIOError", "InvalidPageSize">>
        /\ file' = file
        /\ manager' = manager

\* get_page of an id no write_page was made for failed with PageNotFound and
\* left the manager as it was
UnwrittenGetNotFound ==
    (page_result'.op = "get_page" /\ written[page_result'.page_id] = <<>>) =>
        /\ page_result'.ret = [ok |-> FALSE, err |-> <<"PageIOError", "PageNotFound">>]
        /\ file' = file
        /\ manager' = manager

FailuresChangeNothing == FailedWriteKeepsAll /\ UnwrittenGetNotFound

\* C33: write_page with a page whose length is not the page size fails and
\* leaves the file and the cache as they were; get_page of an id that was
\* never written fails with page-not-found and adds nothing to the cache.
C33_FailuresChangeNothing == [][FailuresChangeNothing]_vars

====
